---------------------------- MODULE Spec2Model ----------------------------
(***************************************************************************)
(* A model of openapi-gen/main.go: the generator that reads a swagger      *)
(* document, decodes its "definitions" and "paths", executes codeTemplate  *)
(* over the decoded schema and writes the text to stdout or to --output.   *)
(*                                                                         *)
(* Go strings are sequences of ASCII codes, so that strings.ToUpper,       *)
(* strings.Title, strings.TrimLeft, strings.Replace and the byte order of  *)
(* map keys are computed character by character.  Property and item types  *)
(* are only ever compared with eq, and are kept as TLA+ strings.           *)
(***************************************************************************)
EXTENDS Integers, Sequences, FiniteSets, TLC

VARIABLES
    \* the name transformers, called on one input
    fnName, fnInput, fnOutput,
    \* one property pushed through the two property branches of codeTemplate
    tplStage, tplName, tplProp, tplOut,
    \* the process and its environment
    inputs, output, fsInput, fsOutput,
    pc, schema, pos, stdout, buf, fileOpen, created,
    run, prev

fnVars  == <<fnName, fnInput, fnOutput>>
tplVars == <<tplStage, tplName, tplProp, tplOut>>
envVars == <<inputs, output, fsInput>>
runVars == <<fsOutput, pc, schema, pos, stdout, buf, fileOpen, created, run, prev>>
vars    == <<fnVars, tplVars, envVars, runVars>>

-----------------------------------------------------------------------------
(* Bounds of the model *)

\* longest string handed to a name transformer
MaxLen == 4
\* most definitions in one input document
MaxDefs == 2
\* lines the buffered writer holds before it has to write them through
BufCap == 2
\* times the generator is invoked on the same input and output path
MaxRuns == 2

-----------------------------------------------------------------------------
(* Characters *)

Underscore == 95
Newline    == 10
Space      == 32

\* "#/definitions/", the second argument of strings.TrimLeft
RefCutset == <<35,47,100,101,102,105,110,105,116,105,111,110,115,47>>

IsLower(c) == c \in 97..122
IsUpper(c) == c \in 65..90
IsDigit(c) == c \in 48..57

\* strings.ToUpper on a one-character ASCII string
ToUpper(c) == IF IsLower(c) THEN c - 32 ELSE c

\* strings.isSeparator: ASCII alphanumerics and underscore are not separators,
\* every other ASCII character is
isSeparator(c) == ~(IsDigit(c) \/ IsLower(c) \/ IsUpper(c) \/ c = Underscore)

\* strings.Title: the letter that follows a separator (or starts the string)
\* is mapped to title case
Title(s) ==
    [i \in 1..Len(s) |->
        IF isSeparator(IF i = 1 THEN Space ELSE s[i - 1]) THEN ToUpper(s[i]) ELSE s[i]]

Range(s) == {s[i] : i \in 1..Len(s)}

\* strings.TrimLeft(s, cutset): drop the leading characters that occur in cutset
RECURSIVE TrimLeft(_, _)
TrimLeft(s, cutset) ==
    IF s # <<>> /\ Head(s) \in Range(cutset) THEN TrimLeft(Tail(s), cutset) ELSE s

-----------------------------------------------------------------------------
(* The name transformers *)

convertRefToClassName(input) ==
    LET cleanRef == TrimLeft(input, RefCutset)
    IN  Title(cleanRef)

\* the body of `for k, v := range input`, k counted from 1
RECURSIVE SnakeLoop(_, _, _, _)
SnakeLoop(input, k, isToUpper, out) ==
    IF k > Len(input) THEN out
    ELSE LET v == input[k] IN
         IF k = 1 THEN SnakeLoop(input, k + 1, isToUpper, <<ToUpper(input[1])>>)
         ELSE IF isToUpper THEN SnakeLoop(input, k + 1, FALSE, Append(out, ToUpper(v)))
         ELSE IF v = Underscore THEN SnakeLoop(input, k + 1, TRUE, out)
         ELSE SnakeLoop(input, k + 1, FALSE, Append(out, v))

snakeCaseToPascalCase(input) == SnakeLoop(input, 1, FALSE, <<>>)

\* a strings.Replace that stops after the first newline (n = 1 instead of -1)
RECURSIVE ReplaceFirstNewline(_)
ReplaceFirstNewline(input) ==
    IF input = <<>> THEN <<>>
    ELSE IF Head(input) = Newline THEN <<Space>> \o Tail(input)
    ELSE <<Head(input)>> \o ReplaceFirstNewline(Tail(input))

\* strings.Replace(input, "\n", " ", -1)
stripNewlines(input) ==
    [i \in 1..Len(input) |-> IF input[i] = Newline THEN Space ELSE input[i]]

-----------------------------------------------------------------------------
(* Values the variables of the other specifications rest at *)

NoType == [list |-> FALSE, base |-> "", ref |-> <<>>]
NoProp == [Type |-> "", Ref |-> <<>>, Items |-> [Type |-> "", Ref |-> <<>>],
           Description |-> <<>>]
NoFile == [exists |-> FALSE, writable |-> TRUE, data |-> <<>>]
NoInput == [readable |-> FALSE, valid |-> FALSE, defs |-> <<>>, paths |-> <<>>]
NoSchema == [Definitions |-> <<>>, Paths |-> <<>>]
NoPrev == [stdout |-> <<>>, file |-> NoFile, complete |-> FALSE]

FnIdle  == fnName = "idle" /\ fnInput = <<>> /\ fnOutput = <<>>
TplIdle == tplStage = "idle" /\ tplName = <<>> /\ tplProp = NoProp /\ tplOut = <<>>
EnvIdle == inputs = <<>> /\ output = "" /\ fsInput = NoInput
RunIdle ==
    /\ fsOutput = NoFile /\ pc = "idle" /\ schema = NoSchema /\ pos = 0
    /\ stdout = <<>> /\ buf = <<>> /\ fileOpen = FALSE /\ created = FALSE
    /\ run = 0 /\ prev = NoPrev

-----------------------------------------------------------------------------
(* SpecTransform: each name transformer called on every bounded input *)

\* a, s, S, underscore, newline, carriage return
Alphabet == {97, 115, 83, Underscore, Newline, 13}

StringsUpTo(n) == UNION {[1..k -> Alphabet] : k \in 0..n}

\* "user_id", "id", "a\nb\nc", "a__b", "#/definitions/Session", "#/definitions/friend"
Examples ==
    { <<117,115,101,114,95,105,100>>, <<105,100>>, <<97,10,98,10,99>>, <<97,95,95,98>>,
      <<35,47,100,101,102,105,110,105,116,105,111,110,115,47,83,101,115,115,105,111,110>>,
      <<35,47,100,101,102,105,110,105,116,105,111,110,115,47,102,114,105,101,110,100>> }

TransformInputs ==
    StringsUpTo(MaxLen) \cup {RefCutset \o s : s \in StringsUpTo(MaxLen)} \cup Examples

InitTransform ==
    /\ fnName = "none" /\ fnInput \in TransformInputs /\ fnOutput = <<>>
    /\ TplIdle /\ EnvIdle /\ RunIdle

CallConvertRefToClassName ==
    /\ fnName = "none"
    /\ fnName' = "convertRefToClassName"
    /\ fnOutput' = convertRefToClassName(fnInput)
    /\ UNCHANGED <<fnInput, tplVars, envVars, runVars>>

CallSnakeCaseToPascalCase ==
    /\ fnName = "none"
    /\ fnName' = "snakeCaseToPascalCase"
    /\ fnOutput' = snakeCaseToPascalCase(fnInput)
    /\ UNCHANGED <<fnInput, tplVars, envVars, runVars>>

CallStripNewlines ==
    /\ fnName = "none"
    /\ fnName' = "stripNewlines"
    /\ fnOutput' = stripNewlines(fnInput)
    /\ UNCHANGED <<fnInput, tplVars, envVars, runVars>>

NextTransform ==
    \/ CallConvertRefToClassName
    \/ CallSnakeCaseToPascalCase
    \/ CallStripNewlines

SpecTransform == InitTransform /\ [][NextTransform]_vars

HasRefPrefix(s) ==
    Len(s) >= Len(RefCutset) /\ SubSeq(s, 1, Len(RefCutset)) = RefCutset

\* the string with its first n characters removed
Drop(s, n) == SubSeq(s, n + 1, Len(s))

\* C3: for a reference "#/definitions/<Name>" convertRefToClassName returns the
\* title-cased <Name>, exactly the literal prefix removed and no character of
\* <Name>; for an input without that prefix it returns the title-cased input.
C3_OnlyLiteralPrefixRemoved ==
    fnName = "convertRefToClassName" =>
        fnOutput = IF HasRefPrefix(fnInput)
                   THEN Title(Drop(fnInput, Len(RefCutset)))
                   ELSE Title(fnInput)

\* what the documented transform gives: underscores dropped, the first character
\* kept and every character that follows an underscore upper-cased
RECURSIVE DropUnderscores(_, _)
DropUnderscores(s, capitalize) ==
    IF s = <<>> THEN <<>>
    ELSE IF Head(s) = Underscore THEN DropUnderscores(Tail(s), TRUE)
    ELSE <<IF capitalize THEN ToUpper(Head(s)) ELSE Head(s)>>
            \o DropUnderscores(Tail(s), FALSE)

\* C4: for every input, leading, trailing and consecutive underscores included,
\* the output of snakeCaseToPascalCase holds no underscore: each underscore is
\* dropped and only capitalizes the next character seen.
C4_NoUnderscoreInOutput ==
    fnName = "snakeCaseToPascalCase" =>
        /\ Underscore \notin Range(fnOutput)
        /\ fnOutput = DropUnderscores(fnInput, TRUE)

IsSnakeIdentifier(s) ==
    /\ s # <<>>
    /\ \A i \in 1..Len(s) : IsLower(s[i]) \/ IsDigit(s[i]) \/ s[i] = Underscore
    /\ s[1] # Underscore
    /\ s[Len(s)] # Underscore

\* C5: for every snake_case identifier without leading or trailing underscore the
\* output of snakeCaseToPascalCase holds no underscore and starts with the
\* upper-case form of the identifier's first character.
C5_SnakeIdentifierToPascal ==
    (fnName = "snakeCaseToPascalCase" /\ IsSnakeIdentifier(fnInput)) =>
        /\ Underscore \notin Range(fnOutput)
        /\ fnOutput # <<>>
        /\ fnOutput[1] = ToUpper(fnInput[1])

\* C10: stripNewlines returns the input with every newline replaced by one space
\* and every other character, carriage return included, unchanged in place: the
\* output has no newline and the length of the input.
C10_NewlinesBecomeSpaces ==
    fnName = "stripNewlines" =>
        /\ Len(fnOutput) = Len(fnInput)
        /\ Newline \notin Range(fnOutput)
        /\ \A i \in 1..Len(fnInput) :
              fnOutput[i] = IF fnInput[i] = Newline THEN Space ELSE fnInput[i]

\* "a\nb\nc" has become "a b c"
C10_Witness ==
    /\ fnName = "stripNewlines"
    /\ fnInput = <<97,10,98,10,99>>
    /\ fnOutput = <<97,32,98,32,99>>

-----------------------------------------------------------------------------
(* codeTemplate: the text is a sequence of lines, one record for each line   *)
(* of the template that holds an action or opens or closes a declaration.    *)
(* k names the template line, a and b hold the strings substituted into it,  *)
(* t the C# type of an accessor or a field.                                  *)

Ln(k, a, b, t) == [k |-> k, a |-> a, b |-> b, t |-> t, msg |-> ""]

\* a line of fmt.Printf / fmt.Println
Diag(msg) == [k |-> "diag", a |-> <<>>, b |-> <<>>, t |-> NoType, msg |-> msg]

Scalar(base)  == [list |-> FALSE, base |-> base, ref |-> <<>>]
ListOf(base)  == [list |-> TRUE, base |-> base, ref |-> <<>>]
IRef(name)    == [list |-> FALSE, base |-> "I", ref |-> name]
ListOfIRef(name) == [list |-> TRUE, base |-> "I", ref |-> name]

\* the type chosen by the branches of the interface's property loop
InterfaceFieldType(property) ==
    IF property.Type = "integer" THEN Scalar("int")
    ELSE IF property.Type = "boolean" THEN Scalar("bool")
    ELSE IF property.Type = "string" THEN Scalar("string")
    ELSE IF property.Type = "array" THEN
        IF property.Items.Type = "string" THEN ListOf("string")
        ELSE IF property.Items.Type = "integer" THEN ListOf("int")
        ELSE IF property.Items.Type = "boolean" THEN ListOf("bool")
        ELSE ListOfIRef(convertRefToClassName(property.Items.Ref))
    ELSE IRef(convertRefToClassName(property.Ref))

\* a class loop that looks at $ref first and at the type only without one
ClassFieldTypeRefFirst(property) ==
    IF property.Ref # <<>> THEN IRef(convertRefToClassName(property.Ref))
    ELSE InterfaceFieldType(property)

\* the type chosen by the branches of the class's property loop
ClassFieldType(property) ==
    IF property.Type = "integer" THEN Scalar("int")
    ELSE IF property.Type = "boolean" THEN Scalar("bool")
    ELSE IF property.Type = "string" THEN Scalar("string")
    ELSE IF property.Type = "array" THEN
        IF property.Items.Type = "string" THEN ListOf("string")
        ELSE IF property.Items.Type = "integer" THEN ListOf("int")
        ELSE IF property.Items.Type = "boolean" THEN ListOf("bool")
        ELSE ListOfIRef(convertRefToClassName(property.Items.Ref))
    ELSE IRef(convertRefToClassName(property.Ref))

\* one turn of the interface's range over $definition.Properties
InterfaceProperty(propname, property) ==
    LET fieldname == snakeCaseToPascalCase(propname)
    IN  << Ln("propsummary", property.Description, <<>>, NoType),
           Ln("accessor", <<>>, fieldname, InterfaceFieldType(property)) >>

\* a class loop that writes the field name into the annotation
ClassPropertyAnnotatedByField(propname, property) ==
    LET fieldname == snakeCaseToPascalCase(propname)
    IN  << Ln("inheritdoc", <<>>, <<>>, NoType),
           Ln("annotation", fieldname, <<>>, NoType),
           Ln("field", <<>>, fieldname, ClassFieldType(property)) >>

\* one turn of the class's range over $definition.Properties: every branch
\* writes the JsonProperty annotation and then the property
ClassProperty(propname, property) ==
    LET fieldname == snakeCaseToPascalCase(propname)
    IN  << Ln("inheritdoc", <<>>, <<>>, NoType),
           Ln("annotation", propname, <<>>, NoType),
           Ln("field", <<>>, fieldname, ClassFieldType(property)) >>

-----------------------------------------------------------------------------
(* SpecField: one property, of every shape, through both property loops *)

TypeMarkers == {"integer", "boolean", "string", "array", "", "object"}

\* "", "#/definitions/Account", "#/definitions/friend"
RefValues ==
    { <<>>,
      <<35,47,100,101,102,105,110,105,116,105,111,110,115,47,65,99,99,111,117,110,116>>,
      <<35,47,100,101,102,105,110,105,116,105,111,110,115,47,102,114,105,101,110,100>> }

PropertySpace ==
    [Type : TypeMarkers, Ref : RefValues, Items : [Type : TypeMarkers, Ref : RefValues],
     Description : {<<>>}]

\* "user_id", "id", "a__b"
FieldNames == { <<117,115,101,114,95,105,100>>, <<105,100>>, <<97,95,95,98>> }

InitField ==
    /\ tplStage = "none" /\ tplName \in FieldNames /\ tplProp \in PropertySpace
    /\ tplOut = <<>>
    /\ FnIdle /\ EnvIdle /\ RunIdle

RenderInterfaceProperty ==
    /\ tplStage = "none"
    /\ tplStage' = "interface"
    /\ tplOut' = InterfaceProperty(tplName, tplProp)
    /\ UNCHANGED <<tplName, tplProp, fnVars, envVars, runVars>>

RenderClassProperty ==
    /\ tplStage = "none"
    /\ tplStage' = "class"
    /\ tplOut' = ClassProperty(tplName, tplProp)
    /\ UNCHANGED <<tplName, tplProp, fnVars, envVars, runVars>>

NextField ==
    \/ RenderInterfaceProperty
    \/ RenderClassProperty

SpecField == InitField /\ [][NextField]_vars

\* the type of the one accessor or field line that was written
WrittenType == tplOut[Len(tplOut)].t

\* C1: the field type follows the property's Type: integer, boolean and string
\* give int, bool and string; array gives a list of string, int or bool by
\* Items.Type and otherwise a list of references named from Items.Ref; any other
\* Type gives one reference named from Ref.  Under a recognized Type the value
\* of Ref does not matter.
C1_TypePrecedence ==
    tplStage \in {"interface", "class"} =>
        /\ tplOut[Len(tplOut)].k = (IF tplStage = "class" THEN "field" ELSE "accessor")
        /\ tplProp.Type = "integer" => WrittenType = Scalar("int")
        /\ tplProp.Type = "boolean" => WrittenType = Scalar("bool")
        /\ tplProp.Type = "string" => WrittenType = Scalar("string")
        /\ (tplProp.Type = "array" /\ tplProp.Items.Type = "string")
              => WrittenType = ListOf("string")
        /\ (tplProp.Type = "array" /\ tplProp.Items.Type = "integer")
              => WrittenType = ListOf("int")
        /\ (tplProp.Type = "array" /\ tplProp.Items.Type = "boolean")
              => WrittenType = ListOf("bool")
        /\ (tplProp.Type = "array"
                /\ tplProp.Items.Type \notin {"string", "integer", "boolean"})
              => WrittenType = ListOfIRef(convertRefToClassName(tplProp.Items.Ref))
        /\ tplProp.Type \notin {"integer", "boolean", "string", "array"}
              => WrittenType = IRef(convertRefToClassName(tplProp.Ref))

\* an array of strings that also carries a $ref became a list of string in the class
C1_Witness ==
    /\ tplStage = "class"
    /\ tplProp.Type = "array" /\ tplProp.Items.Type = "string"
    /\ tplProp.Ref # <<>> /\ tplProp.Items.Ref # <<>>
    /\ WrittenType = ListOf("string")

-----------------------------------------------------------------------------
(* Maps and their iteration *)

\* the byte order of Go strings
RECURSIVE StrLess(_, _)
StrLess(x, y) ==
    IF y = <<>> THEN FALSE
    ELSE IF x = <<>> THEN TRUE
    ELSE IF Head(x) # Head(y) THEN Head(x) < Head(y)
    ELSE StrLess(Tail(x), Tail(y))

RECURSIVE SortedKeys(_)
SortedKeys(S) ==
    IF S = {} THEN <<>>
    ELSE LET least == CHOOSE x \in S : \A y \in S \ {x} : StrLess(x, y)
         IN  <<least>> \o SortedKeys(S \ {least})

Reverse(s) == [i \in 1..Len(s) |-> s[Len(s) + 1 - i]]

\* the keys of a Go map in the order of the map's own iteration, which differs
\* from one run of the process to the next
RangeKeysOfGoMap(m) ==
    IF run = 1 THEN SortedKeys(DOMAIN m) ELSE Reverse(SortedKeys(DOMAIN m))

\* the keys visited last to first
RangeKeysDescending(m) == Reverse(SortedKeys(DOMAIN m))

\* {{ range $key, $value := m }} of text/template over a map with string keys:
\* the elements are visited in sorted key order
RangeKeys(m) == SortedKeys(DOMAIN m)

RECURSIVE Flatten(_)
Flatten(ss) == IF ss = <<>> THEN <<>> ELSE Head(ss) \o Flatten(Tail(ss))

\* json.Unmarshal of a JSON object into a Go map makes one entry for each key,
\* with the value of the key's last occurrence; the order of the keys is not kept
Keys(entries) == {entries[i].name : i \in 1..Len(entries)}

LastValue(entries, key) ==
    LET last == CHOOSE i \in 1..Len(entries) :
                    /\ entries[i].name = key
                    /\ \A j \in 1..Len(entries) : entries[j].name = key => j <= i
    IN  entries[last].value

DecodeDefinition(value) ==
    [Description |-> value.Description,
     Properties |-> [key \in Keys(value.props) |-> LastValue(value.props, key)]]

DecodePath(ops) == [key \in Keys(ops) |-> LastValue(ops, key)]

\* json.Unmarshal(content, &schema) on a well-formed document
Decode(file) ==
    [Definitions |->
        [key \in Keys(file.defs) |-> DecodeDefinition(LastValue(file.defs, key))],
     Paths |->
        [key \in Keys(file.paths) |-> DecodePath(LastValue(file.paths, key))]]

-----------------------------------------------------------------------------
(* The blocks of codeTemplate *)

TemplateHeader == << Ln("header", <<>>, <<>>, NoType) >>

InterfaceBlock(defname, definition) ==
    LET classname == Title(defname)
        keys == RangeKeys(definition.Properties)
    IN  << Ln("summary", stripNewlines(definition.Description), <<>>, NoType),
           Ln("interface", classname, <<>>, NoType) >>
        \o Flatten([i \in 1..Len(keys) |->
                       InterfaceProperty(keys[i], definition.Properties[keys[i]])])
        \o << Ln("endinterface", <<>>, <<>>, NoType) >>

ClassBlock(defname, definition) ==
    LET classname == Title(defname)
        keys == RangeKeys(definition.Properties)
    IN  << Ln("class", classname, classname, NoType) >>
        \o Flatten([i \in 1..Len(keys) |->
                       ClassProperty(keys[i], definition.Properties[keys[i]])])
        \o << Ln("tostring", <<>>, <<>>, NoType) >>
        \o [i \in 1..Len(keys) |->
               Ln("concat", <<>>, snakeCaseToPascalCase(keys[i]), NoType)]
        \o << Ln("endclass", <<>>, <<>>, NoType) >>

\* the ApiClient block: the template still ranges over .Paths inside the
\* comment it writes
PathOperations(path) ==
    LET methods == RangeKeys(path)
    IN  [i \in 1..Len(methods) |->
            Ln("operation", stripNewlines(path[methods[i]].Summary),
               snakeCaseToPascalCase(path[methods[i]].OperationId), NoType)]

ApiClientBlock(paths) ==
    LET urls == RangeKeys(paths)
    IN  << Ln("apiclient", <<>>, <<>>, NoType) >>
        \o Flatten([i \in 1..Len(urls) |-> PathOperations(paths[urls[i]])])
        \o << Ln("footer", <<>>, <<>>, NoType) >>

\* the definitions in the order the template visits them
DefinitionOrder(s) == RangeKeys(s.Definitions)

\* the template writes the header, two blocks for each definition and the
\* ApiClient block
NChunks(s) == 2 * Len(DefinitionOrder(s)) + 2

-----------------------------------------------------------------------------
(* The writers *)

\* bufio.Writer.Write of some lines: a full buffer is written through to the
\* file before the next line is taken
RECURSIVE BufWrite(_, _, _)
BufWrite(b, file, lines) ==
    IF lines = <<>> THEN [buf |-> b, file |-> file]
    ELSE IF Len(b) >= BufCap
         THEN BufWrite(<<>>, [file EXCEPT !.data = @ \o b], lines)
         ELSE BufWrite(Append(b, Head(lines)), file, Tail(lines))

\* os.Create: the file is created, or truncated when it exists
CreateFile(file) == [exists |-> TRUE, writable |-> TRUE, data |-> <<>>]

\* tmpl.Execute writes to os.Stdout without --output and to the bufio.Writer
\* with it
Emit(lines) ==
    IF output = ""
    THEN /\ stdout' = stdout \o lines
         /\ UNCHANGED <<buf, fsOutput>>
    ELSE LET w == BufWrite(buf, fsOutput, lines)
         IN  /\ buf' = w.buf
             /\ fsOutput' = w.file
             /\ UNCHANGED stdout

-----------------------------------------------------------------------------
(* The input documents *)

Prop(type, ref, itemsType, itemsRef, description) ==
    [Type |-> type, Ref |-> ref, Items |-> [Type |-> itemsType, Ref |-> itemsRef],
     Description |-> description]

Entry(name, value) == [name |-> name, value |-> value]

\* "#/definitions/Account" and "#/definitions/friend"
AccountRef ==
    <<35,47,100,101,102,105,110,105,116,105,111,110,115,47,65,99,99,111,117,110,116>>
FriendRef ==
    <<35,47,100,101,102,105,110,105,116,105,111,110,115,47,102,114,105,101,110,100>>

\* the definitions a document is made of: "account" with user_id and wallet,
\* "Session" with created and a__b, "friends" with list_x and user; the
\* description "x\ny" has a newline in it
PoolNames == << <<97,99,99,111,117,110,116>>, <<83,101,115,115,105,111,110>>,
                <<102,114,105,101,110,100,115>> >>

PoolDescriptions == << <<120,10,121>>, <<>>, <<120,10,121>> >>

PoolProps ==
    << { Entry(<<117,115,101,114,95,105,100>>, Prop("string", <<>>, "", <<>>, <<120,10,121>>)),
         Entry(<<119,97,108,108,101,116>>, Prop("integer", AccountRef, "", <<>>, <<>>)) },
       { Entry(<<99,114,101,97,116,101,100>>, Prop("boolean", <<>>, "", <<>>, <<>>)),
         Entry(<<97,95,95,98>>, Prop("array", <<>>, "string", <<>>, <<>>)) },
       { Entry(<<108,105,115,116,95,120>>, Prop("array", <<>>, "", FriendRef, <<>>)),
         Entry(<<117,115,101,114>>, Prop("", AccountRef, "", <<>>, <<>>)) } >>

\* the sequences without repetition of at most n elements of S
Arrangements(S, n) ==
    {q \in UNION {[1..k -> S] : k \in 0..n} :
        \A i, j \in 1..Len(q) : i # j => q[i] # q[j]}

DefSelections == Arrangements(1..Len(PoolNames), MaxDefs)

PropArrangements(d) == Arrangements(PoolProps[d], Cardinality(PoolProps[d]))

\* the "definitions" objects: some definitions of the pool in any order, each
\* with some of its properties in any order
Documents ==
    UNION { { [i \in 1..Len(sel) |->
                 Entry(PoolNames[sel[i]],
                       [Description |-> PoolDescriptions[sel[i]], props |-> f[i]])] :
              f \in {g \in [1..Len(sel) -> UNION {PropArrangements(d) : d \in 1..Len(PoolNames)}] :
                       \A i \in 1..Len(sel) : g[i] \in PropArrangements(sel[i])} } :
            sel \in DefSelections }

\* the "paths" objects: none, or "/b" with post and get followed by "/a" with
\* get; the summary is "x\ny" and the operationId "list_x"
Operation == [Summary |-> <<120,10,121>>, OperationId |-> <<108,105,115,116,95,120>>]

PathDocuments ==
    { <<>>,
      << Entry(<<47,98>>, << Entry(<<112,111,115,116>>, Operation),
                             Entry(<<103,101,116>>, Operation) >>),
         Entry(<<47,97>>, << Entry(<<103,101,116>>, Operation) >>) >> }

\* the file named by the first argument: missing or unreadable, not JSON of the
\* schema's shape, or a document
InputFiles ==
    {NoInput}
    \cup {[readable |-> TRUE, valid |-> FALSE, defs |-> <<>>, paths |-> <<>>]}
    \cup {[readable |-> TRUE, valid |-> TRUE, defs |-> d, paths |-> p] :
            d \in Documents, p \in PathDocuments}

\* what the output path holds before the first run: nothing, or an older file;
\* or it is a path at which no file can be created
StaleFile ==
    [exists |-> TRUE, writable |-> TRUE, data |-> << Ln("stale", <<>>, <<>>, NoType) >>]
NoDirectory == [exists |-> FALSE, writable |-> FALSE, data |-> <<>>]

\* the command lines and files of a run: without an input file nothing is read,
\* and without --output the output path is not looked at
Environments ==
    {e \in [inputs : {<<>>, <<"swagger.json">>}, output : {"", "out.cs"},
            fsInput : InputFiles, fsOutput : {NoFile, StaleFile, NoDirectory}] :
        /\ e.inputs = <<>> => (e.fsInput = NoInput /\ e.fsOutput = NoFile)
        /\ e.output = "" => e.fsOutput = NoFile}

-----------------------------------------------------------------------------
(* main *)

Init ==
    /\ FnIdle /\ TplIdle
    /\ \E e \in Environments :
          /\ inputs = e.inputs /\ output = e.output
          /\ fsInput = e.fsInput /\ fsOutput = e.fsOutput
    /\ pc = "start" /\ schema = NoSchema /\ pos = 0
    /\ stdout = <<>> /\ buf = <<>> /\ fileOpen = FALSE /\ created = FALSE
    /\ run = 1 /\ prev = NoPrev

\* the process prints a diagnostic and returns
Return(msg) ==
    /\ stdout' = Append(stdout, Diag(msg))
    /\ pc' = "done"

\* len(inputs) < 1: usage and flag defaults
NoInputFile ==
    /\ pc = "start" /\ Len(inputs) < 1
    /\ Return("No input file found")
    /\ UNCHANGED <<fnVars, tplVars, envVars, fsOutput, schema, pos, buf, fileOpen,
                   created, run, prev>>

ReadFileFails ==
    /\ pc = "start" /\ Len(inputs) >= 1 /\ ~fsInput.readable
    /\ Return("Unable to read file")
    /\ UNCHANGED <<fnVars, tplVars, envVars, fsOutput, schema, pos, buf, fileOpen,
                   created, run, prev>>

ReadFile ==
    /\ pc = "start" /\ Len(inputs) >= 1 /\ fsInput.readable
    /\ pc' = "decode"
    /\ UNCHANGED <<fnVars, tplVars, envVars, fsOutput, schema, pos, stdout, buf,
                   fileOpen, created, run, prev>>

\* a failed decode that prints and carries on with the zero schema
UnmarshalFailsNoReturn ==
    /\ pc = "decode" /\ ~fsInput.valid
    /\ stdout' = Append(stdout, Diag("Unable to decode input"))
    /\ pc' = "parse"
    /\ UNCHANGED <<fnVars, tplVars, envVars, fsOutput, schema, pos, buf, fileOpen,
                   created, run, prev>>

UnmarshalFails ==
    /\ pc = "decode" /\ ~fsInput.valid
    /\ Return("Unable to decode input")
    /\ UNCHANGED <<fnVars, tplVars, envVars, fsOutput, schema, pos, buf, fileOpen,
                   created, run, prev>>

Unmarshal ==
    /\ pc = "decode" /\ fsInput.valid
    /\ schema' = Decode(fsInput)
    /\ pc' = "parse"
    /\ UNCHANGED <<fnVars, tplVars, envVars, fsOutput, pos, stdout, buf, fileOpen,
                   created, run, prev>>

\* template.New(input).Funcs(fmap).Parse(codeTemplate): codeTemplate is a
\* constant that parses, so the error branch is never taken
ParseTemplate ==
    /\ pc = "parse"
    /\ pc' = "open"
    /\ UNCHANGED <<fnVars, tplVars, envVars, fsOutput, schema, pos, stdout, buf,
                   fileOpen, created, run, prev>>

\* len(*output) < 1: the template is executed on os.Stdout
UseStdout ==
    /\ pc = "open" /\ output = ""
    /\ pc' = "execute"
    /\ UNCHANGED <<fnVars, tplVars, envVars, fsOutput, schema, pos, stdout, buf,
                   fileOpen, created, run, prev>>

CreateFails ==
    /\ pc = "open" /\ output # "" /\ ~fsOutput.writable
    /\ Return("Unable to create file")
    /\ UNCHANGED <<fnVars, tplVars, envVars, fsOutput, schema, pos, buf, fileOpen,
                   created, run, prev>>

\* os.Create, defer f.Close(), bufio.NewWriter(f)
Create ==
    /\ pc = "open" /\ output # "" /\ fsOutput.writable
    /\ fsOutput' = CreateFile(fsOutput)
    /\ fileOpen' = TRUE
    /\ created' = TRUE
    /\ buf' = <<>>
    /\ pc' = "execute"
    /\ UNCHANGED <<fnVars, tplVars, envVars, schema, pos, stdout, run, prev>>

\* tmpl.Execute, one block of the template at a time
ExecuteHeader ==
    /\ pc = "execute" /\ pos = 0
    /\ Emit(TemplateHeader)
    /\ pos' = 1
    /\ UNCHANGED <<fnVars, tplVars, envVars, pc, schema, fileOpen, created, run, prev>>

ExecuteInterface ==
    /\ pc = "execute" /\ pos >= 1 /\ pos < NChunks(schema) - 1 /\ pos % 2 = 1
    /\ LET defname == DefinitionOrder(schema)[(pos + 1) \div 2]
       IN  Emit(InterfaceBlock(defname, schema.Definitions[defname]))
    /\ pos' = pos + 1
    /\ UNCHANGED <<fnVars, tplVars, envVars, pc, schema, fileOpen, created, run, prev>>

ExecuteClass ==
    /\ pc = "execute" /\ pos >= 1 /\ pos < NChunks(schema) - 1 /\ pos % 2 = 0
    /\ LET defname == DefinitionOrder(schema)[pos \div 2]
       IN  Emit(ClassBlock(defname, schema.Definitions[defname]))
    /\ pos' = pos + 1
    /\ UNCHANGED <<fnVars, tplVars, envVars, pc, schema, fileOpen, created, run, prev>>

\* the last block; without --output main returns here
ExecuteApiClient ==
    /\ pc = "execute" /\ pos = NChunks(schema) - 1
    /\ Emit(ApiClientBlock(schema.Paths))
    /\ pos' = pos + 1
    /\ pc' = IF output = "" THEN "done" ELSE "flush"
    /\ UNCHANGED <<fnVars, tplVars, envVars, schema, fileOpen, created, run, prev>>

\* a main that returns without writer.Flush()
FlushSkipped ==
    /\ pc = "flush"
    /\ pc' = "close"
    /\ UNCHANGED <<fnVars, tplVars, envVars, fsOutput, schema, pos, stdout, buf,
                   fileOpen, created, run, prev>>

\* writer.Flush()
Flush ==
    /\ pc = "flush"
    /\ fsOutput' = [fsOutput EXCEPT !.data = @ \o buf]
    /\ buf' = <<>>
    /\ pc' = "close"
    /\ UNCHANGED <<fnVars, tplVars, envVars, schema, pos, stdout, fileOpen, created,
                   run, prev>>

\* the deferred f.Close() as main returns
Close ==
    /\ pc = "close"
    /\ fileOpen' = FALSE
    /\ pc' = "done"
    /\ UNCHANGED <<fnVars, tplVars, envVars, fsOutput, schema, pos, stdout, buf,
                   created, run, prev>>

\* every block of the template has been written in this run
Rendered == pos = NChunks(schema) /\ pos > 0

\* the generator is invoked again with the same arguments on the same files
RunAgain ==
    /\ pc = "done" /\ run < MaxRuns
    /\ prev' = [stdout |-> stdout, file |-> fsOutput, complete |-> Rendered]
    /\ run' = run + 1
    /\ pc' = "start"
    /\ schema' = NoSchema /\ pos' = 0 /\ stdout' = <<>> /\ buf' = <<>>
    /\ fileOpen' = FALSE /\ created' = FALSE
    /\ UNCHANGED <<fnVars, tplVars, envVars, fsOutput>>

Next ==
    \/ NoInputFile
    \/ ReadFileFails
    \/ ReadFile
    \/ UnmarshalFails
    \/ Unmarshal
    \/ ParseTemplate
    \/ UseStdout
    \/ CreateFails
    \/ Create
    \/ ExecuteHeader
    \/ ExecuteInterface
    \/ ExecuteClass
    \/ ExecuteApiClient
    \/ Flush
    \/ Close
    \/ RunAgain

Spec == Init /\ [][Next]_vars

-----------------------------------------------------------------------------
(* What the runs are checked against *)

\* the lines the template wrote, without diagnostics and older content
Generated(lines) == SelectSeq(lines, LAMBDA l : l.k \notin {"diag", "stale"})

\* where the text of this run went
Destination == IF output = "" THEN Generated(stdout) ELSE fsOutput.data

\* main has returned after executing the whole template
Completed == pc = "done" /\ Rendered

\* the text of one execution of the template, start to end
WholeText(s) ==
    LET order == DefinitionOrder(s)
    IN  TemplateHeader
        \o Flatten([i \in 1..Len(order) |->
                       InterfaceBlock(order[i], s.Definitions[order[i]])
                       \o ClassBlock(order[i], s.Definitions[order[i]])])
        \o ApiClientBlock(s.Paths)

IsPrefix(p, q) == Len(p) <= Len(q) /\ SubSeq(q, 1, Len(p)) = p

HasDiagnostic == \E i \in 1..Len(stdout) : stdout[i].k = "diag" /\ stdout[i].msg # ""

\* C6: when reading the input or decoding it fails, the output file is never
\* created or truncated, no generated text reaches the file or standard output,
\* and a non-empty diagnostic is printed before the run ends; the output file is
\* created only after read, decode and template parse have succeeded.
C6_FailedInputWritesNothing ==
    /\ (Len(inputs) >= 1 /\ (~fsInput.readable \/ ~fsInput.valid)) =>
          /\ ~created /\ ~fileOpen
          /\ fsOutput \in {NoFile, StaleFile, NoDirectory}
          /\ Generated(stdout) = <<>> /\ buf = <<>>
          /\ pc = "done" => HasDiagnostic
    /\ created =>
          /\ fsInput.readable /\ fsInput.valid
          /\ schema = Decode(fsInput)
          /\ pc \in {"execute", "flush", "close", "done"}

\* a run on a file that is not JSON ended with the older output file untouched
C6_Witness ==
    /\ pc = "done" /\ Len(inputs) >= 1 /\ fsInput.readable /\ ~fsInput.valid
    /\ output # "" /\ fsOutput = StaleFile
    /\ HasDiagnostic

\* C7: a run that reaches rendering writes to one destination: to standard
\* output, and creates no file, when --output is empty; otherwise to the file,
\* created or truncated first, the writer flushed after rendering and before the
\* file is closed, so that the file holds the whole text when the run is over.
C7_OneDestinationFlushedBeforeClose ==
    /\ output = "" =>
          /\ ~created /\ ~fileOpen /\ buf = <<>>
          /\ fsOutput \in {NoFile, StaleFile, NoDirectory}
          /\ IsPrefix(Generated(stdout), WholeText(schema))
          /\ Completed => Generated(stdout) = WholeText(schema)
    /\ (output # "" /\ pc \in {"execute", "flush", "close"}) =>
          /\ created /\ fileOpen /\ fsOutput.exists
          /\ Generated(stdout) = <<>>
          /\ IsPrefix(fsOutput.data \o buf, WholeText(schema))
          /\ pc = "flush" => fsOutput.data \o buf = WholeText(schema)
          /\ pc = "close" => (buf = <<>> /\ fsOutput.data = WholeText(schema))
    /\ (output # "" /\ Completed) =>
          /\ created /\ ~fileOpen /\ buf = <<>>
          /\ Generated(stdout) = <<>>
          /\ fsOutput = [exists |-> TRUE, writable |-> TRUE, data |-> WholeText(schema)]

\* a second run over an older file ended with the whole text, longer than the
\* writer's buffer, in the file
C7_Witness ==
    /\ Completed /\ output # "" /\ run >= 2 /\ prev.file.exists
    /\ schema.Definitions # <<>>
    /\ Len(fsOutput.data) > BufCap
    /\ fsOutput.data = WholeText(schema)

\* C8: two runs on the same input document with the same output path write the
\* same text, definitions and properties in the same order.
C8_SameInputSameOutput ==
    (run >= 2 /\ Completed /\ prev.complete) =>
        /\ Generated(stdout) = Generated(prev.stdout)
        /\ fsOutput = prev.file

\* the second run over a document of two definitions has ended
C8_Witness ==
    /\ run >= 2 /\ Completed /\ prev.complete
    /\ Len(fsInput.defs) >= 2 /\ Len(fsInput.paths) >= 2
    /\ Len(Destination) > 0

\* the declarations of a text in the order they were written: what was
\* declared, for which name, and under which identifier
Declarations(text) ==
    LET decl == SelectSeq(text,
                    LAMBDA l : l.k \in {"interface", "accessor", "class", "annotation"})
    IN  [i \in 1..Len(decl) |-> <<decl[i].k, decl[i].a, decl[i].b>>]

\* the declarations of one definition whose properties are visited in order props
DeclarationsOf(defname, props) ==
    << <<"interface", Title(defname), <<>>>> >>
    \o [j \in 1..Len(props) |-> <<"accessor", <<>>, snakeCaseToPascalCase(props[j])>>]
    \o << <<"class", Title(defname), Title(defname)>> >>
    \o [j \in 1..Len(props) |-> <<"annotation", props[j], <<>>>>]

\* the names of a JSON object in the order they stand in the document
DocumentOrder(entries) == [i \in 1..Len(entries) |-> entries[i].name]

\* the elements of S, least first in byte order
Ascending(S) ==
    [i \in 1..Cardinality(S) |->
        CHOOSE x \in S : Cardinality({y \in S : StrLess(y, x)}) = i - 1]

\* C9 as the specification has it: the definitions, and the properties of each,
\* are emitted in the order of their keys in the input JSON object, each
\* definition as one interface followed by one class.
C9_EmittedInDocumentOrder ==
    Completed =>
        Declarations(Destination) =
            Flatten([i \in 1..Len(fsInput.defs) |->
                        DeclarationsOf(fsInput.defs[i].name,
                                       DocumentOrder(fsInput.defs[i].value.props))])

\* C9: the definitions, and the properties of each, are emitted in ascending
\* byte order of their keys, whatever their order in the input JSON object, each
\* definition as one interface followed by one class.
C9_EmittedInKeyOrder ==
    Completed =>
        LET order == Ascending(DOMAIN schema.Definitions)
        IN  Declarations(Destination) =
                Flatten([i \in 1..Len(order) |->
                            DeclarationsOf(order[i],
                                Ascending(DOMAIN schema.Definitions[order[i]].Properties))])

\* a document with its two definitions, and the two properties of the first,
\* in descending key order has been rendered
C9_Witness ==
    /\ Completed
    /\ Len(fsInput.defs) = 2
    /\ StrLess(fsInput.defs[2].name, fsInput.defs[1].name)
    /\ Len(fsInput.defs[1].value.props) = 2
    /\ StrLess(fsInput.defs[1].value.props[2].name, fsInput.defs[1].value.props[1].name)
    /\ Len(Declarations(Destination)) = 8

\* the lines of the class named classname, from its opening line to its end
ClassLines(text, classname) ==
    LET opens == {i \in 1..Len(text) : text[i].k = "class" /\ text[i].a = classname}
        open  == CHOOSE i \in opens : TRUE
        close == CHOOSE j \in open..Len(text) :
                    /\ text[j].k = "endclass"
                    /\ \A m \in open..(j - 1) : text[m].k # "endclass"
    IN  IF opens = {} THEN <<>> ELSE SubSeq(text, open, close)

\* C2: for every definition and every property of it, whatever its type, the
\* class holds exactly one field for the property, named
\* snakeCaseToPascalCase(property name), under exactly one serialization
\* annotation whose string is the property name unchanged.
C2_OneAnnotatedFieldPerProperty ==
    Completed =>
        \A defname \in DOMAIN schema.Definitions :
            LET props == DOMAIN schema.Definitions[defname].Properties
                block == ClassLines(Destination, Title(defname))
                fields == {i \in 1..Len(block) : block[i].k = "field"}
                annotations == {i \in 1..Len(block) : block[i].k = "annotation"}
            IN  /\ Cardinality({i \in 1..Len(Destination) :
                                   /\ Destination[i].k = "class"
                                   /\ Destination[i].a = Title(defname)}) = 1
                /\ Cardinality(fields) = Cardinality(props)
                /\ Cardinality(annotations) = Cardinality(props)
                /\ \A i \in fields : (i - 1) \in annotations
                /\ \A p \in props :
                      /\ Cardinality({i \in annotations : block[i].a = p}) = 1
                      /\ \A i \in annotations :
                            block[i].a = p =>
                                /\ (i + 1) \in fields
                                /\ block[i + 1].b = snakeCaseToPascalCase(p)
                                /\ block[i + 1].t =
                                      ClassFieldType(schema.Definitions[defname].Properties[p])

\* the class Account holds the string field UserId annotated "user_id"
C2_Witness ==
    /\ Completed
    /\ \E i \in 1..(Len(Destination) - 1) :
          /\ Destination[i].k = "annotation"
          /\ Destination[i].a = <<117,115,101,114,95,105,100>>
          /\ Destination[i + 1].k = "field"
          /\ Destination[i + 1].b = <<85,115,101,114,73,100>>
          /\ Destination[i + 1].t = Scalar("string")

=============================================================================
